---------------------------- MODULE Spec2Model ----------------------------
(***************************************************************************)
(* A model of the document-indexing and retrieval core of llm-playground   *)
(* (src/rag/src/chroma.py, src/rag/src/app.py).                            *)
(*                                                                         *)
(* A Document / chunk is a record [page_content, metadata]; metadata is a  *)
(* Python dict, modelled as a function whose DOMAIN is the set of keys     *)
(* present.  A page text is modelled by its length in characters and a     *)
(* chunk text by the window <<from, to>> it covers.                        *)
(***************************************************************************)
EXTENDS Integers, Sequences, FiniteSets, TLC

(***************************************************************************)
(* Bounds of the model.                                                    *)
(***************************************************************************)
\* longest chunk list handed directly to calculate_chunk_ids
MaxLen == 4
\* number of direct calculate_chunk_ids invocations that are recorded
MaxCalls == 2

(***************************************************************************)
(* Python values.                                                          *)
(***************************************************************************)
\* dict.get(key): <<v>> when the key is present, <<>> (None) when it is not
Get(m, key) == IF key \in DOMAIN m THEN <<m[key]>> ELSE <<>>

\* what an f-string renders for the value of `source` (a str) or None
FmtSource(v) == IF v = <<>> THEN "None" ELSE v[1]

\* what an f-string renders for the value of `page` (an int) or None
FmtPage(v) == IF v = <<>> THEN "None" ELSE ToString(v[1])

\* an update in which the keys already present keep their values
ApplyItem_KeepOld(m, item) == m @@ item

\* dict update in iteration order: for key, value in item.items(): m[key] = value
ApplyItem(m, item) == item @@ m

RECURSIVE ApplyOverlay(_, _)
\* chroma.py 79-82: every dict of the overlay list, in list order
ApplyOverlay(m, metadata) ==
    IF metadata = <<>> THEN m
    ELSE ApplyOverlay(ApplyItem(m, Head(metadata)), Tail(metadata))

(***************************************************************************)
(* calculate_chunk_ids (chroma.py 47-83).                                  *)
(***************************************************************************)
\* the loop's local state before the first chunk: last_page_id = None
\* (the empty option), current_chunk_index = 0
LoopStart == [last_page_id |-> <<>>, current_chunk_index |-> 0]

\* f"{source}:{page}"
PageId(chunk) ==
    FmtSource(Get(chunk.metadata, "source")) \o ":" \o
    FmtPage(Get(chunk.metadata, "page"))

\* a loop that counts on across a change of page
NextIndex_NoReset(st, cur) ==
    IF st.last_page_id = <<>> THEN 0 ELSE st.current_chunk_index + 1

\* a loop that never increments
NextIndex_AlwaysZero(st, cur) == 0

\* the index the loop gives a chunk whose page id is cur, from loop state st
NextIndex(st, cur) ==
    IF st.last_page_id = <<cur>> THEN st.current_chunk_index + 1 ELSE 0

\* f"{current_page_id}:{current_chunk_index}"
ChunkId(cur, index) == cur \o ":" \o ToString(index)

\* one loop iteration's effect on the chunk: the id, then the overlay
Stamp(chunk, id, metadata) ==
    [chunk EXCEPT !.metadata = ApplyOverlay(("id" :> id) @@ chunk.metadata, metadata)]

RECURSIVE IdLoop(_, _, _)
\* the loop of chroma.py 60-82 run from loop state st over chunks: the loop
\* state it ends in and the chunks it leaves.  A list of several chunks is
\* run as its first half followed, from the state that leaves, by its second
\* half, which keeps the evaluation depth logarithmic; each half is bound as
\* the element of a one-element set, so it is evaluated once.
IdLoop(st, chunks, metadata) ==
    IF chunks = <<>> THEN [st |-> st, out |-> <<>>]
    ELSE IF Len(chunks) = 1 THEN
        LET cur == PageId(chunks[1])
            idx == NextIndex(st, cur)
        IN  [st |-> [last_page_id |-> <<cur>>, current_chunk_index |-> idx],
             out |-> <<Stamp(chunks[1], ChunkId(cur, idx), metadata)>>]
    ELSE
        LET half == Len(chunks) \div 2
            runs == UNION { { [out |-> left.out \o right.out, st |-> right.st] :
                                right \in { IdLoop(left.st,
                                                   SubSeq(chunks, half + 1, Len(chunks)),
                                                   metadata) } } :
                            left \in { IdLoop(st, SubSeq(chunks, 1, half), metadata) } }
        IN  CHOOSE run \in runs : TRUE

calculate_chunk_ids(chunks, metadata) == IdLoop(LoopStart, chunks, metadata).out

(***************************************************************************)
(* The collaborators (the loader, the splitter, the store).                *)
(***************************************************************************)
\* program constants
BatchSize == 100
DefaultChunkSize == 400
DefaultChunkOverlap == 40
DefaultK == 2

\* slices that run one element into the next batch
batch_OffByOne(iterable, n) ==
    [b \in 1..((Len(iterable) + n - 1) \div n) |->
        SubSeq(iterable, (b - 1) * n + 1,
               IF b * n + 1 < Len(iterable) THEN b * n + 1 ELSE Len(iterable))]

\* batch(iterable, n) (chroma.py 125-129): the slices iterable[i : i + n]
\* for i in range(0, len(iterable), n), in order
batch(iterable, n) ==
    [b \in 1..((Len(iterable) + n - 1) \div n) |->
        SubSeq(iterable, (b - 1) * n + 1,
               IF b * n < Len(iterable) THEN b * n ELSE Len(iterable))]

\* a splitter that accepts every pair
SplitterRejects_Never(chunk_size, chunk_overlap) == FALSE

\* RecursiveCharacterTextSplitter(chunk_size, chunk_overlap) (chroma.py
\* 139-141): the constructor raises ValueError only for a larger overlap
SplitterRejects(chunk_size, chunk_overlap) == chunk_overlap > chunk_size

\* the characters the splitter keeps from one window for the next one
Keep(chunk_size, chunk_overlap) ==
    IF chunk_overlap < chunk_size THEN chunk_overlap ELSE chunk_size - 1

\* the windows <<from, to>> cut from a text of length len (hard cuts of a
\* text without separators): each chunk_size long, the last one shorter,
\* each starting step characters after the one before
Windows(len, chunk_size, step) ==
    LET count == IF len = 0 THEN 0
                 ELSE IF len <= chunk_size THEN 1
                 ELSE 1 + ((len - chunk_size + step - 1) \div step)
    IN  [i \in 1..count |->
            << (i - 1) * step,
               IF (i - 1) * step + chunk_size < len
               THEN (i - 1) * step + chunk_size ELSE len >>]

\* the chunks of one Document: each keeps a copy of the Document's metadata
SplitOne(doc, chunk_size, chunk_overlap) ==
    LET w == Windows(doc.page_content, chunk_size,
                     chunk_size - Keep(chunk_size, chunk_overlap))
    IN  [i \in 1..Len(w) |-> [page_content |-> w[i], metadata |-> doc.metadata]]

RECURSIVE split_documents(_, _, _)
\* split_documents (chroma.py 137-142): Document by Document, in order
split_documents(documents, chunk_size, chunk_overlap) ==
    IF documents = <<>> THEN <<>>
    ELSE SplitOne(Head(documents), chunk_size, chunk_overlap) \o
         split_documents(Tail(documents), chunk_size, chunk_overlap)

\* the overlay /api/embed passes to add_documents (app.py 57-67)
EmbedOverlay ==
    << [ u \in {"user:editor", "user:owner", "user:admin", "user:superadmin",
                "user:root", "user:system", "user:anonymous"} |->
            u # "user:editor" ] >>

\* the ids in a list of chunks: [chunk.metadata["id"] for chunk in chunks]
IdsOf(chunks) == [i \in 1..Len(chunks) |-> chunks[i].metadata["id"]]

\* the elements of a sequence
Range(seq) == { seq[i] : i \in 1..Len(seq) }

\* a read that finds no id
StoredIds_NoIds(coll) == {}

\* vector_store.get(include=[])["ids"]: the ids of the stored entries
StoredIds(coll) == { coll[i].id : i \in 1..Len(coll) }

\* a diff that keeps every chunk
NewChunks_IgnoreExisting(chunks_with_ids, existing_ids) == chunks_with_ids

\* chroma.py 101-104: the chunks whose id is not in existing_ids, in order
NewChunks(chunks_with_ids, existing_ids) ==
    SelectSeq(chunks_with_ids, LAMBDA chunk : chunk.metadata["id"] \notin existing_ids)

\* a write that replaces what the collection held
StoreAdd_Replace(coll, batch_chunks, batch_ids) ==
    [i \in 1..Len(batch_chunks) |->
        [id |-> batch_ids[i],
         page_content |-> batch_chunks[i].page_content,
         metadata |-> batch_chunks[i].metadata]]

\* vector_store.add_documents(batch_chunks, ids=batch_ids) (chroma.py 111),
\* the store's write keyed by explicit id: an entry stored under an id of the
\* batch is replaced in place, the other ids are appended in batch order; of
\* several batch items with one id the last one stays
StoreAdd(coll, batch_chunks, batch_ids) ==
    LET n == Len(batch_ids)
        given == Range(batch_ids)
        stored == StoredIds(coll)
        entry(j) == [id |-> batch_ids[j],
                     page_content |-> batch_chunks[j].page_content,
                     metadata |-> batch_chunks[j].metadata]
        isFirst(j) == \A k \in 1..(j - 1) : batch_ids[k] # batch_ids[j]
        isLast(j) == \A k \in (j + 1)..n : batch_ids[k] # batch_ids[j]
        written(id) == entry(CHOOSE j \in 1..n : batch_ids[j] = id /\ isLast(j))
        fresh == SelectSeq([j \in 1..n |-> j],
                           LAMBDA j : batch_ids[j] \notin stored /\ isFirst(j))
    IN  [i \in 1..Len(coll) |->
            IF coll[i].id \in given THEN written(coll[i].id) ELSE coll[i]]
        \o [f \in 1..Len(fresh) |-> written(batch_ids[fresh[f]])]

\* the store's metadata filter: every key/value pair of filter is matched
Matches(metadata, filter) ==
    \A key \in DOMAIN filter :
        key \in DOMAIN metadata /\ metadata[key] = filter[key]

\* the stored entries that match filter, in the store's ranking order
Select(coll, filter) ==
    SelectSeq(coll, LAMBDA entry : Matches(entry.metadata, filter))

\* vector_store.similarity_search(query, k=k, filter=filter): the k best
\* ranked matching entries (fewer when fewer match)
SimilaritySearch(coll, k, filter) ==
    LET hits == Select(coll, filter)
    IN  SubSeq(hits, 1, IF k < Len(hits) THEN k ELSE Len(hits))

\* a search that drops the filter
SearchArgs_NoFilter(k, filter) == [k |-> k, filter |-> <<>>]

\* search (chroma.py 113-123) hands k and filter to the store unchanged
SearchArgs(k, filter) == [k |-> k, filter |-> filter]

(***************************************************************************)
(* The state.                                                              *)
(***************************************************************************)
VARIABLES
    arg,            \* the chunk list handed directly to calculate_chunk_ids
    calls,          \* the direct invocations made so far: <<[metadata, result]>>
    data,           \* the Documents the loader reads from the "data" directory
    collections,    \* the persistent store: index_name -> stored entries
    req,            \* per task: the HTTP request it serves
    pc,             \* per task: the step it executes next
    vector_store,   \* per task: its ChromaVectorDB instance's handle
    documents,      \* per task: the loaded Documents
    chunks,         \* per task: the split chunks (with ids once identified)
    existing_ids,   \* per task: the stored ids read by add_documents
    new_chunks,     \* per task: the chunks add_documents found new
    batch_no,       \* per task: the batch the write loop hands over next
    ret,            \* per task: what add_documents returned
    results,        \* per task: the result lists of /api/search
    response,       \* per task: the HTTP response sent
    store_calls,    \* per task: the calls it made to the store, in order
    store_unique,   \* the store keeps one entry per id (Chroma does)
    class_vector_store, \* ChromaVectorDB.vector_store, the class attribute
    instance,       \* per ChromaVectorDB object: its life cycle and attribute
    opened,         \* the store handles constructed so far, in order
    returned,       \* the connect calls that returned, in order
    thread          \* per thread: the connect call it is executing

vars == <<arg, calls, data, collections, req, pc, vector_store, documents,
          chunks, existing_ids, new_chunks, batch_no, ret, results, response,
          store_calls, store_unique, class_vector_store, instance, opened,
          returned, thread>>

idVars == <<arg, calls>>
connVars == <<class_vector_store, instance, opened, returned, thread>>
sharedVars == <<data, collections>>
taskVars == <<req, pc, vector_store, documents, chunks, existing_ids,
              new_chunks, batch_no, ret, results, response, store_calls>>

\* number of HTTP requests (tasks) served in one behaviour
MaxTasks == 2
Tasks == 1..MaxTasks
\* number of ChromaVectorDB objects constructed in one behaviour
MaxInstances == 2
Instances == 1..MaxInstances
\* number of threads that call connect
MaxThreads == 2
Threads == 1..MaxThreads
\* number of connect calls begun in one behaviour, the constructors' included
MaxConnects == 4

(***************************************************************************)
(* The inputs.                                                             *)
(***************************************************************************)
\* the metadata of a chunk handed directly to calculate_chunk_ids: source
\* and page, each possibly absent; "None" is a source that renders like an
\* absent one
MetaKinds ==
    { [source |-> "A", page |-> 1], [source |-> "A", page |-> 2],
      [source |-> "B", page |-> 1], [source |-> "A"], [source |-> "None"],
      <<>> }

\* the chunk lists of length at most n; chunk i holds the i-th text window
ChunkLists(n) ==
    UNION { { [i \in 1..k |-> [page_content |-> <<i - 1, i>>, metadata |-> f[i]]] :
                f \in [1..k -> MetaKinds] } : k \in 0..n }

\* the overlays handed directly to calculate_chunk_ids
Overlays ==
    { <<>>, EmbedOverlay, << [source |-> "Z"], [source |-> "Y"] >>,
      << [id |-> "X"] >> }

\* what the loader returns for the "data" directory: one Document per page
\* of a file, its text a number of characters, files and pages in order
Corpora ==
    { <<>>,
      << [page_content |-> 5, metadata |-> [source |-> "a.pdf", page |-> 0]],
         [page_content |-> 3, metadata |-> [source |-> "a.pdf", page |-> 1]],
         [page_content |-> 2, metadata |-> [source |-> "b.txt"]] >> }

\* a "data" directory whose chunks fill several write batches: one page of
\* 500 characters gives 250 chunks of 2 characters and 101 chunks of 400
\* characters with overlap 400
BigCorpora ==
    { << [page_content |-> 500, metadata |-> [source |-> "a.pdf", page |-> 0]] >> }

IndexNames == {"kb", "docs"}
\* the index names a new request may carry: the names are interchangeable,
\* so "docs" is taken only once an earlier request has taken "kb"
NamesFor(t) == IF t = 1 THEN {"kb"} ELSE IndexNames
\* <<chunk_size, chunk_overlap>> of an /api/embed request
SplitParams ==
    { <<DefaultChunkSize, DefaultChunkOverlap>>,
      <<DefaultChunkSize, DefaultChunkSize>>,
      <<DefaultChunkSize, DefaultChunkSize + 1>>,
      <<2, 0>> }
\* the pairs that cut the large directory into more than one batch
BigSplitParams == { <<2, 0>>, <<DefaultChunkSize, DefaultChunkSize>> }
\* k of an /api/search request
Ks == {-1, 0, DefaultK}
Queries == {"q"}

(***************************************************************************)
(* Values.                                                                 *)
(***************************************************************************)
NoReq == [api |-> "none"]
\* Python's None as a returned value
PyNone == [py |-> "None"]
\* an answer that reports the ingestion as finished
UploadStarted_Completed ==
    [status |-> 200, success |-> TRUE, message |-> "Upload completed"]
\* a no-op reported as a failure
NoNewDocuments_Failure ==
    [success |-> FALSE, message |-> "No new valid documents to add"]
\* the dict add_documents returns when nothing is new (chroma.py 107)
NoNewDocuments == [success |-> TRUE, message |-> "No new valid documents to add"]
UploadStarted == [status |-> 200, success |-> TRUE,
                  message |-> "Upload started in background"]
InternalServerError == [status |-> 500, detail |-> "Internal server error"]
EditorFilter == [f \in {"user:editor"} |-> TRUE]
\* a second search that repeats the editor filter
OwnerFilter_Editor == EditorFilter
OwnerFilter == [f \in {"user:owner"} |-> TRUE]

\* the collection a task's handle reads and writes
Coll(t) == collections[vector_store[t][1]]

TaskInit ==
    /\ req = [t \in Tasks |-> NoReq]
    /\ pc = [t \in Tasks |-> "idle"]
    /\ vector_store = [t \in Tasks |-> <<>>]
    /\ documents = [t \in Tasks |-> <<>>]
    /\ chunks = [t \in Tasks |-> <<>>]
    /\ existing_ids = [t \in Tasks |-> {}]
    /\ new_chunks = [t \in Tasks |-> <<>>]
    /\ batch_no = [t \in Tasks |-> 1]
    /\ ret = [t \in Tasks |-> <<>>]
    /\ results = [t \in Tasks |-> [editor |-> <<>>, owner |-> <<>>]]
    /\ response = [t \in Tasks |-> <<>>]
    /\ store_calls = [t \in Tasks |-> <<>>]

\* no ChromaVectorDB object exists and no thread is inside connect
NoCall == [pc |-> "idle"]
ConnInit ==
    /\ class_vector_store = <<>>
    /\ instance = [i \in Instances |->
                      [constructed |-> FALSE, published |-> FALSE,
                       vector_store |-> <<>>]]
    /\ opened = <<>>
    /\ returned = <<>>
    /\ thread = [th \in Threads |-> NoCall]

\* the service after start-up: no request yet, no collection created
Init ==
    /\ arg = <<>>
    /\ calls = <<>>
    /\ data \in Corpora
    /\ collections = <<>>
    /\ store_unique = TRUE
    /\ TaskInit
    /\ ConnInit

(***************************************************************************)
(* POST /api/embed (app.py 38-74) and its background task.                 *)
(***************************************************************************)
\* embed: schedules background_upload and answers at once
Embed(t, index_name, chunk_size, chunk_overlap) ==
    /\ pc[t] = "idle"
    /\ \A u \in Tasks : u < t => pc[u] # "idle"
    /\ req' = [req EXCEPT ![t] = [api |-> "embed", index_name |-> index_name,
                                  chunk_size |-> chunk_size,
                                  chunk_overlap |-> chunk_overlap]]
    /\ response' = [response EXCEPT ![t] = <<UploadStarted>>]
    /\ pc' = [pc EXCEPT ![t] = "connect"]
    /\ UNCHANGED <<idVars, connVars, store_unique,
                   sharedVars, vector_store, documents, chunks,
                   existing_ids, new_chunks, batch_no, ret, results, store_calls>>

\* embed: scheduling the background task raises (app.py 70-74); the request
\* is answered with 500 and no background task exists
EmbedRaises(t, index_name, chunk_size, chunk_overlap) ==
    /\ pc[t] = "idle"
    /\ \A u \in Tasks : u < t => pc[u] # "idle"
    /\ req' = [req EXCEPT ![t] = [api |-> "embed", index_name |-> index_name,
                                  chunk_size |-> chunk_size,
                                  chunk_overlap |-> chunk_overlap]]
    /\ response' = [response EXCEPT ![t] = <<InternalServerError>>]
    /\ pc' = [pc EXCEPT ![t] = "rejected"]
    /\ UNCHANGED <<idVars, connVars, store_unique, sharedVars, vector_store,
                   documents, chunks, existing_ids, new_chunks, batch_no, ret,
                   results, store_calls>>

\* a connect that hands every caller the handle of one collection
connect_Shared(handle, index_name) == <<"kb">>

\* connect (chroma.py 31-45): opens, creating it when needed, the collection
\* index_name unless the instance already holds a handle
connect(handle, index_name) == IF handle # <<>> THEN handle ELSE <<index_name>>

\* the store after Chroma(collection_name = index_name): get or create
Opened(index_name) ==
    IF index_name \in DOMAIN collections THEN collections
    ELSE (index_name :> <<>>) @@ collections

\* ChromaVectorDB(index_name, embedding) (app.py 47-49, 84): the constructor
\* connects the new instance
Connect(t) ==
    /\ pc[t] = "connect"
    /\ vector_store' = [vector_store EXCEPT ![t] = connect(@, req[t].index_name)]
    /\ collections' = IF vector_store[t] # <<>> THEN collections
                      ELSE Opened(req[t].index_name)
    /\ pc' = [pc EXCEPT ![t] = IF req[t].api = "embed" THEN "load" ELSE "search_editor"]
    /\ UNCHANGED <<idVars, connVars, store_unique,
                   data, req, documents, chunks, existing_ids,
                   new_chunks, batch_no, ret, results, response, store_calls>>

\* load_documents("data") (app.py 51, chroma.py 131-135)
Load(t) ==
    /\ pc[t] = "load"
    /\ documents' = [documents EXCEPT ![t] = data]
    /\ pc' = [pc EXCEPT ![t] = "split"]
    /\ UNCHANGED <<idVars, connVars, store_unique,
                   sharedVars, req, vector_store, chunks, existing_ids,
                   new_chunks, batch_no, ret, results, response, store_calls>>

\* split_documents(documents, chunk_size, chunk_overlap) (app.py 52-54)
Split(t) ==
    /\ pc[t] = "split"
    /\ ~SplitterRejects(req[t].chunk_size, req[t].chunk_overlap)
    /\ chunks' = [chunks EXCEPT ![t] =
                     split_documents(documents[t], req[t].chunk_size,
                                     req[t].chunk_overlap)]
    /\ pc' = [pc EXCEPT ![t] = "identify"]
    /\ UNCHANGED <<idVars, connVars, store_unique,
                   sharedVars, req, vector_store, documents,
                   existing_ids, new_chunks, batch_no, ret, results, response,
                   store_calls>>

\* the splitter's constructor raises: the background task ends, no caller
\* is told
SplitRejected(t) ==
    /\ pc[t] = "split"
    /\ SplitterRejects(req[t].chunk_size, req[t].chunk_overlap)
    /\ pc' = [pc EXCEPT ![t] = "failed"]
    /\ UNCHANGED <<idVars, connVars, store_unique,
                   sharedVars, req, vector_store, documents, chunks,
                   existing_ids, new_chunks, batch_no, ret, results, response,
                   store_calls>>

\* add_documents, chroma.py 92: chunks_with_ids = calculate_chunk_ids(...)
Identify(t) ==
    /\ pc[t] = "identify"
    /\ chunks' = [chunks EXCEPT ![t] = calculate_chunk_ids(@, EmbedOverlay)]
    /\ pc' = [pc EXCEPT ![t] = "diff"]
    /\ UNCHANGED <<idVars, connVars, store_unique,
                   sharedVars, req, vector_store, documents,
                   existing_ids, new_chunks, batch_no, ret, results, response,
                   store_calls>>

\* add_documents, chroma.py 94-107: reads the stored ids, keeps the chunks
\* whose id is not stored, and returns at once when none is left
Diff(t) ==
    /\ pc[t] = "diff"
    /\ LET ids == StoredIds(Coll(t))
           new == NewChunks(chunks[t], ids)
       IN  /\ existing_ids' = [existing_ids EXCEPT ![t] = ids]
           /\ new_chunks' = [new_chunks EXCEPT ![t] = new]
           /\ ret' = [ret EXCEPT ![t] = IF new = <<>> THEN <<NoNewDocuments>> ELSE @]
           /\ pc' = [pc EXCEPT ![t] = IF new = <<>> THEN "done" ELSE "upsert"]
    /\ store_calls' = [store_calls EXCEPT ![t] = Append(@, [op |-> "get"])]
    /\ UNCHANGED <<idVars, connVars, store_unique,
                   sharedVars, req, vector_store, documents, chunks,
                   batch_no, results, response>>

\* a write on a store that keeps no entry per id: the entries are appended
StoreAppend(coll, batch_chunks, batch_ids) ==
    coll \o [i \in 1..Len(batch_chunks) |->
                [id |-> batch_ids[i],
                 page_content |-> batch_chunks[i].page_content,
                 metadata |-> batch_chunks[i].metadata]]

\* a store that appends although it is taken to keep one entry per id
StoreWrite_Append(coll, batch_chunks, batch_ids) ==
    StoreAppend(coll, batch_chunks, batch_ids)

\* vector_store.add_documents(batch_chunks, ids=batch_ids) (chroma.py 111)
\* on the store at hand
StoreWrite(coll, batch_chunks, batch_ids) ==
    IF store_unique THEN StoreAdd(coll, batch_chunks, batch_ids)
    ELSE StoreAppend(coll, batch_chunks, batch_ids)

\* the write add_documents issues for one batch (chroma.py 110-111)
WriteCall(batch_chunks, ok) ==
    [op |-> "add_documents", documents |-> batch_chunks,
     ids |-> IdsOf(batch_chunks), ok |-> ok]

\* add_documents, chroma.py 109-111: one pass of the write loop
Upsert(t) ==
    /\ pc[t] = "upsert"
    /\ LET batches == batch(new_chunks[t], BatchSize)
           call == WriteCall(batches[batch_no[t]], TRUE)
       IN  /\ collections' = [collections EXCEPT ![vector_store[t][1]] =
                                 StoreWrite(@, call.documents, call.ids)]
           /\ store_calls' = [store_calls EXCEPT ![t] = Append(@, call)]
           /\ batch_no' = [batch_no EXCEPT ![t] = @ + 1]
           /\ pc' = [pc EXCEPT ![t] = IF batch_no[t] = Len(batches) THEN "done"
                                      ELSE "upsert"]
           /\ ret' = [ret EXCEPT ![t] = IF batch_no[t] = Len(batches)
                                        THEN <<PyNone>> ELSE @]
    /\ UNCHANGED <<idVars, connVars, store_unique,
                   data, req, vector_store, documents, chunks,
                   existing_ids, new_chunks, results, response>>

\* the store or the embedding provider raises during a batch's write: the
\* batch is not stored and the exception ends the background task
UpsertRaises(t) ==
    /\ pc[t] = "upsert"
    /\ LET batches == batch(new_chunks[t], BatchSize)
       IN  store_calls' = [store_calls EXCEPT ![t] =
                              Append(@, WriteCall(batches[batch_no[t]], FALSE))]
    /\ pc' = [pc EXCEPT ![t] = "failed"]
    /\ UNCHANGED <<idVars, connVars, store_unique,
                   sharedVars, req, vector_store, documents, chunks,
                   existing_ids, new_chunks, batch_no, ret, results, response>>

\* the store or the loader raises in an earlier stage of the background task
BackgroundRaises(t) ==
    /\ pc[t] \in {"connect", "load", "diff"}
    /\ req[t].api = "embed"
    /\ pc' = [pc EXCEPT ![t] = "failed"]
    /\ UNCHANGED <<idVars, connVars, store_unique,
                   sharedVars, req, vector_store, documents, chunks,
                   existing_ids, new_chunks, batch_no, ret, results, response,
                   store_calls>>

(***************************************************************************)
(* POST /api/search (app.py 77-105).                                       *)
(***************************************************************************)
\* the request arrives; the handler runs on the request path
SearchRequest(t, query, index_name, k) ==
    /\ pc[t] = "idle"
    /\ \A u \in Tasks : u < t => pc[u] # "idle"
    /\ req' = [req EXCEPT ![t] = [api |-> "search", index_name |-> index_name,
                                  query |-> query, k |-> k]]
    /\ pc' = [pc EXCEPT ![t] = "connect"]
    /\ UNCHANGED <<idVars, connVars, store_unique,
                   sharedVars, vector_store, documents, chunks,
                   existing_ids, new_chunks, batch_no, ret, results, response,
                   store_calls>>

\* the request search (chroma.py 122) sends to the store
SearchCall(query, k, filter) ==
    [op |-> "similarity_search", query |-> query] @@ SearchArgs(k, filter)

\* the store refuses a request for no or a negative number of results
StoreRefuses(call) == call.k <= 0

\* vector_db.search(query, k, filter = {"user:editor": True}) (app.py 87-89)
SearchEditor(t) ==
    /\ pc[t] = "search_editor"
    /\ LET call == SearchCall(req[t].query, req[t].k, EditorFilter)
       IN  /\ store_calls' = [store_calls EXCEPT ![t] = Append(@, call)]
           /\ IF StoreRefuses(call)
              THEN /\ pc' = [pc EXCEPT ![t] = "failed"]
                   /\ response' = [response EXCEPT ![t] = <<InternalServerError>>]
                   /\ UNCHANGED results
              ELSE /\ pc' = [pc EXCEPT ![t] = "search_owner"]
                   /\ results' = [results EXCEPT ![t].editor =
                                     SimilaritySearch(Coll(t), call.k, call.filter)]
                   /\ UNCHANGED response
    /\ UNCHANGED <<idVars, connVars, store_unique,
                   sharedVars, req, vector_store, documents, chunks,
                   existing_ids, new_chunks, batch_no, ret>>

\* vector_db.search(query, k, filter = {"user:owner": True}) (app.py 92-94)
\* and the 200 answer (app.py 98-102)
SearchOwner(t) ==
    /\ pc[t] = "search_owner"
    /\ LET call == SearchCall(req[t].query, req[t].k, OwnerFilter)
       IN  /\ store_calls' = [store_calls EXCEPT ![t] = Append(@, call)]
           /\ IF StoreRefuses(call)
              THEN /\ pc' = [pc EXCEPT ![t] = "failed"]
                   /\ response' = [response EXCEPT ![t] = <<InternalServerError>>]
                   /\ UNCHANGED results
              ELSE /\ LET owner == SimilaritySearch(Coll(t), call.k, call.filter)
                      IN  /\ results' = [results EXCEPT ![t].owner = owner]
                          /\ response' = [response EXCEPT ![t] =
                                 <<[status |-> 200, success |-> TRUE,
                                    results_editor |-> results[t].editor,
                                    results_owner |-> owner]>>]
                   /\ pc' = [pc EXCEPT ![t] = "done"]
    /\ UNCHANGED <<idVars, connVars, store_unique,
                   sharedVars, req, vector_store, documents, chunks,
                   existing_ids, new_chunks, batch_no, ret>>

\* the store or the provider raises while /api/search runs: HTTP 500
\* (app.py 103-105)
SearchRaises(t) ==
    /\ pc[t] \in {"connect", "search_editor", "search_owner"}
    /\ req[t].api = "search"
    /\ pc' = [pc EXCEPT ![t] = "failed"]
    /\ response' = [response EXCEPT ![t] = <<InternalServerError>>]
    /\ UNCHANGED <<idVars, connVars, store_unique,
                   sharedVars, req, vector_store, documents, chunks,
                   existing_ids, new_chunks, batch_no, ret, results, store_calls>>

Next ==
    \E t \in Tasks :
        \/ \E i \in NamesFor(t), sp \in SplitParams : Embed(t, i, sp[1], sp[2])
        \/ \E i \in NamesFor(t) :
              EmbedRaises(t, i, DefaultChunkSize, DefaultChunkOverlap)
        \/ Connect(t)
        \/ Load(t)
        \/ Split(t)
        \/ SplitRejected(t)
        \/ Identify(t)
        \/ Diff(t)
        \/ Upsert(t)
        \/ UpsertRaises(t)
        \/ BackgroundRaises(t)
        \/ \E q \in Queries, i \in NamesFor(t), k \in Ks : SearchRequest(t, q, i, k)
        \/ SearchEditor(t)
        \/ SearchOwner(t)
        \/ SearchRaises(t)

Spec == Init /\ [][Next]_vars

\* the steps of the background task of request t (app.py 42-68)
background_upload(t) ==
    /\ req[t].api = "embed"
    /\ \/ Connect(t)
       \/ Load(t)
       \/ Split(t)
       \/ SplitRejected(t)
       \/ Identify(t)
       \/ Diff(t)
       \/ Upsert(t)
       \/ UpsertRaises(t)
       \/ BackgroundRaises(t)

\* the /api/embed requests of one index and their background tasks
NextRun ==
    \E t \in Tasks :
        \/ \E sp \in SplitParams : Embed(t, "kb", sp[1], sp[2])
        \/ EmbedRaises(t, "kb", DefaultChunkSize, DefaultChunkOverlap)
        \/ Connect(t)
        \/ Load(t)
        \/ Split(t)
        \/ SplitRejected(t)
        \/ Identify(t)
        \/ Diff(t)
        \/ Upsert(t)
        \/ UpsertRaises(t)
        \/ BackgroundRaises(t)

\* ingestion with a worker that keeps running while a scheduled background
\* task has a step to take: each call of a stage returns or raises
SpecLive ==
    /\ Init
    /\ [][NextRun]_vars
    /\ WF_vars(\E t \in Tasks : background_upload(t))

(***************************************************************************)
(* Ingestion of a "data" directory large enough for several write batches: *)
(* the /api/embed requests of one index.                                   *)
(***************************************************************************)
InitBig ==
    /\ arg = <<>>
    /\ calls = <<>>
    /\ data \in BigCorpora
    /\ collections = <<>>
    /\ store_unique = TRUE
    /\ TaskInit
    /\ ConnInit

NextBig ==
    \E t \in Tasks :
        \/ \E sp \in BigSplitParams : Embed(t, "kb", sp[1], sp[2])
        \/ Connect(t)
        \/ Load(t)
        \/ Split(t)
        \/ Identify(t)
        \/ Diff(t)
        \/ Upsert(t)
        \/ UpsertRaises(t)

SpecBig == InitBig /\ [][NextBig]_vars

(***************************************************************************)
(* calculate_chunk_ids called directly, on any chunk list.                 *)
(***************************************************************************)
InitIds ==
    /\ arg \in ChunkLists(MaxLen)
    /\ calls = <<>>
    /\ data = <<>>
    /\ collections = <<>>
    /\ store_unique = TRUE
    /\ TaskInit
    /\ ConnInit

\* one invocation calculate_chunk_ids(chunks, metadata) on a fresh copy of arg
Invoke(metadata) ==
    /\ Len(calls) < MaxCalls
    /\ calls' = Append(calls, [metadata |-> metadata,
                               result |-> calculate_chunk_ids(arg, metadata)])
    /\ UNCHANGED <<arg, sharedVars, taskVars, connVars, store_unique>>

NextIds == \E metadata \in Overlays : Invoke(metadata)

SpecIds == InitIds /\ [][NextIds]_vars

(***************************************************************************)
(* POST /api/search on collections that already hold chunks of every       *)
(* permission kind.                                                        *)
(***************************************************************************)
\* a stored chunk with the given editor and owner flags
StoredChunk(id, editor, owner) ==
    [id |-> id, page_content |-> <<0, 2>>,
     metadata |-> ("id" :> id @@ "source" :> "a.pdf" @@ "page" :> 0
                   @@ "user:editor" :> editor @@ "user:owner" :> owner)]

\* what the persistent store holds when the service starts
StoredCollections ==
    { <<>>,
      [n \in {"kb"} |-> << StoredChunk("a.pdf:0:0", TRUE, TRUE),
                           StoredChunk("a.pdf:0:1", FALSE, TRUE),
                           StoredChunk("a.pdf:0:2", TRUE, FALSE),
                           StoredChunk("a.pdf:0:3", FALSE, FALSE),
                           StoredChunk("a.pdf:0:4", TRUE, TRUE) >>],
      [n \in {"kb", "docs"} |->
          IF n = "kb" THEN << StoredChunk("a.pdf:0:0", FALSE, TRUE) >>
          ELSE << StoredChunk("a.pdf:0:0", TRUE, FALSE) >>] }

InitSearch ==
    /\ arg = <<>>
    /\ calls = <<>>
    /\ data = <<>>
    /\ collections \in StoredCollections
    /\ store_unique = TRUE
    /\ TaskInit
    /\ ConnInit

NextSearch ==
    \E t \in Tasks :
        \/ \E q \in Queries, i \in IndexNames, k \in Ks : SearchRequest(t, q, i, k)
        \/ Connect(t)
        \/ SearchEditor(t)
        \/ SearchOwner(t)
        \/ SearchRaises(t)

SpecSearch == InitSearch /\ [][NextSearch]_vars

(***************************************************************************)
(* add_documents (chroma.py 85-111) called concurrently on one collection, *)
(* by /api/embed and by callers that pass their own chunks and overlay.    *)
(***************************************************************************)
\* a chunk handed to add_documents
Doc(source, page, text) ==
    [page_content |-> text, metadata |-> [source |-> source, page |-> page]]

\* the chunk lists of the direct callers: two lists with no id in common
\* and a third that shares an id with each, under another text
AddInputs ==
    { << Doc("A", 1, <<0, 1>>), Doc("A", 1, <<1, 2>>) >>,
      << Doc("B", 1, <<0, 1>>) >>,
      << Doc("A", 1, <<5, 6>>), Doc("B", 1, <<7, 8>>) >> }

\* the overlays of the direct callers: the one /api/embed passes, and one
\* whose entries set the same key twice
AddOverlays ==
    { EmbedOverlay,
      << [f \in {"user:editor", "user:owner"} |-> TRUE],
         [f \in {"user:editor"} |-> FALSE] >> }

\* what the loader returns while add_documents is exercised: one short page
AddCorpora ==
    { << [page_content |-> 3, metadata |-> [source |-> "a.pdf", page |-> 0]] >> }

\* vector_db.add_documents(documents, metadata) on a connected instance:
\* the call and its first statement (chroma.py 85-92)
AddDocuments(t, docs, metadata) ==
    /\ pc[t] = "idle"
    /\ \A u \in Tasks : u < t => pc[u] # "idle"
    /\ req' = [req EXCEPT ![t] = [api |-> "add_documents", index_name |-> "kb",
                                  metadata |-> metadata]]
    /\ vector_store' = [vector_store EXCEPT ![t] = <<"kb">>]
    /\ documents' = [documents EXCEPT ![t] = docs]
    /\ chunks' = [chunks EXCEPT ![t] = calculate_chunk_ids(docs, metadata)]
    /\ pc' = [pc EXCEPT ![t] = "diff"]
    /\ UNCHANGED <<idVars, connVars, store_unique, sharedVars, existing_ids,
                   new_chunks, batch_no, ret, results, response, store_calls>>

\* the collection exists and is empty; the store either keeps one entry per
\* id, as Chroma does, or appends what it is given
InitAdd ==
    /\ arg = <<>>
    /\ calls = <<>>
    /\ data \in AddCorpora
    /\ collections = [n \in {"kb"} |-> <<>>]
    /\ store_unique \in BOOLEAN
    /\ TaskInit
    /\ ConnInit

NextAdd ==
    \E t \in Tasks :
        \/ \E docs \in AddInputs, metadata \in AddOverlays :
              AddDocuments(t, docs, metadata)
        \/ Embed(t, "kb", DefaultChunkSize, DefaultChunkOverlap)
        \/ Connect(t)
        \/ Load(t)
        \/ Split(t)
        \/ Identify(t)
        \/ Diff(t)
        \/ Upsert(t)
        \/ UpsertRaises(t)

SpecAdd == InitAdd /\ [][NextAdd]_vars

(***************************************************************************)
(* connect (chroma.py 22-45) called by several threads on ChromaVectorDB   *)
(* objects, one step per line of the method.                               *)
(***************************************************************************)
\* all of the model's state but the connect state
restVars == <<idVars, sharedVars, taskVars, store_unique>>

\* self.vector_store: the instance attribute when it is set, the class
\* attribute otherwise
Lookup(attribute, class_attribute) ==
    IF attribute # <<>> THEN attribute ELSE class_attribute

\* a check that never finds a handle
IsConnected_Never(vs) == FALSE

\* chroma.py 37: self.vector_store is not None
IsConnected(vs) == vs # <<>>

\* an object that other threads reach while its constructor is running
Callable_Early(inst) == inst.constructed

\* an object can be called once ChromaVectorDB(...) has returned it, that is
\* once __init__ (chroma.py 24-29) has run its connect
Callable(inst) == inst.published

\* Chroma(persist_directory, embedding_function, collection_name)
\* (chroma.py 40-44): a new handle on the collection index_name
Chroma(index_name) == [collection_name |-> index_name, serial |-> Len(opened) + 1]

\* the connect calls begun so far
Begun == Len(returned) + Cardinality({ th \in Threads : thread[th].pc # "idle" })

\* ChromaVectorDB(index_name, embedding): the object is created and
\* __init__ calls connect (chroma.py 24-29)
New(th, i, index_name) ==
    /\ thread[th].pc = "idle"
    /\ Begun < MaxConnects
    /\ ~instance[i].constructed
    /\ \A j \in Instances : j < i => instance[j].constructed
    /\ instance' = [instance EXCEPT ![i].constructed = TRUE]
    /\ thread' = [thread EXCEPT ![th] =
                     [pc |-> "check", self |-> i, index_name |-> index_name,
                      init |-> TRUE]]
    /\ UNCHANGED <<restVars, class_vector_store, opened, returned>>

\* a thread calls connect(index_name, embedding) on an existing object
CallConnect(th, i, index_name) ==
    /\ thread[th].pc = "idle"
    /\ Begun < MaxConnects
    /\ Callable(instance[i])
    /\ thread' = [thread EXCEPT ![th] =
                     [pc |-> "check", self |-> i, index_name |-> index_name,
                      init |-> FALSE]]
    /\ UNCHANGED <<restVars, class_vector_store, instance, opened, returned>>

\* chroma.py 37: if self.vector_store is not None
Check(th) ==
    /\ thread[th].pc = "check"
    /\ LET vs == Lookup(instance[thread[th].self].vector_store, class_vector_store)
       IN  thread' = [thread EXCEPT ![th].pc =
                         IF IsConnected(vs) THEN "return" ELSE "open"]
    /\ UNCHANGED <<restVars, class_vector_store, instance, opened, returned>>

\* chroma.py 40-44: self.vector_store = Chroma(...)
Open(th) ==
    /\ thread[th].pc = "open"
    /\ LET h == Chroma(thread[th].index_name)
       IN  /\ opened' = Append(opened, [instance |-> thread[th].self, handle |-> h])
           /\ instance' = [instance EXCEPT ![thread[th].self].vector_store = <<h>>]
    /\ thread' = [thread EXCEPT ![th].pc = "return"]
    /\ UNCHANGED <<restVars, class_vector_store, returned>>

\* chroma.py 38 and 45: return self.vector_store; the constructor then
\* hands the object to its caller
Return(th) ==
    /\ thread[th].pc = "return"
    /\ LET i == thread[th].self
           vs == Lookup(instance[i].vector_store, class_vector_store)
       IN  /\ returned' = Append(returned,
                                 [instance |-> i, index_name |-> thread[th].index_name,
                                  init |-> thread[th].init, handle |-> vs])
           /\ instance' = [instance EXCEPT ![i].published = @ \/ thread[th].init]
    /\ thread' = [thread EXCEPT ![th] = NoCall]
    /\ UNCHANGED <<restVars, class_vector_store, opened>>

InitConn ==
    /\ arg = <<>>
    /\ calls = <<>>
    /\ data = <<>>
    /\ collections = <<>>
    /\ store_unique = TRUE
    /\ TaskInit
    /\ ConnInit

NextConn ==
    \E th \in Threads :
        \/ \E i \in Instances, n \in IndexNames : New(th, i, n)
        \/ \E i \in Instances, n \in IndexNames : CallConnect(th, i, n)
        \/ Check(th)
        \/ Open(th)
        \/ Return(th)

SpecConn == InitConn /\ [][NextConn]_vars

\* the handles opened for object i, in order
OpenedFor(i) == SelectSeq(opened, LAMBDA o : o.instance = i)

\* the connect calls on object i that have returned, in order
ReturnedFor(i) == SelectSeq(returned, LAMBDA r : r.instance = i)

\* C11: on one ChromaVectorDB object the store is opened exactly once, by
\* the constructor's connect; every connect call returns that one handle,
\* also a later call that names another index_name, which neither reopens
\* nor switches the collection; the class attribute vector_store stays None,
\* so every object opens a handle of its own.
C11_ConnectIdempotent ==
    /\ class_vector_store = <<>>
    /\ \A i \in Instances :
          instance[i].published =>
              /\ Len(OpenedFor(i)) = 1
              /\ instance[i].vector_store = <<OpenedFor(i)[1].handle>>
              /\ ReturnedFor(i) # <<>>
              /\ ReturnedFor(i)[1].init
              /\ \A c \in 1..Len(ReturnedFor(i)) :
                    /\ ReturnedFor(i)[c].handle = <<OpenedFor(i)[1].handle>>
                    /\ ReturnedFor(i)[c].handle[1].collection_name =
                          ReturnedFor(i)[1].index_name
    /\ \A i, j \in Instances :
          (i # j /\ instance[i].published /\ instance[j].published) =>
              OpenedFor(i)[1].handle # OpenedFor(j)[1].handle

\* C11 witness: an object answered a connect call naming another index
\* with the handle its constructor opened, and a second object has opened
\* its own handle on the same collection
C11_Witness ==
    /\ instance[1].published /\ instance[2].published
    /\ \E c \in 1..Len(ReturnedFor(1)) :
          /\ ~ReturnedFor(1)[c].init
          /\ ReturnedFor(1)[c].index_name # ReturnedFor(1)[c].handle[1].collection_name
    /\ OpenedFor(1)[1].handle.collection_name = OpenedFor(2)[1].handle.collection_name
    /\ Len(opened) = 2

\* C16: under every interleaving of the steps of concurrent connect calls,
\* the store is opened at most once for one ChromaVectorDB object.
C16_OneHandlePerInstance ==
    \A i \in Instances : Len(OpenedFor(i)) <= 1

\* C16 witness: two threads are inside connect on the same object, one past
\* the check and one before it, and the object has one handle
C16_Witness ==
    /\ thread[1].pc = "return" /\ thread[2].pc = "check"
    /\ thread[1].self = thread[2].self
    /\ ~thread[1].init /\ ~thread[2].init
    /\ Len(OpenedFor(thread[1].self)) = 1

(***************************************************************************)
(* Properties of calculate_chunk_ids, checked under SpecIds.               *)
(***************************************************************************)
\* the overlay leaves the key "id" alone
KeepsId(metadata) == \A i \in 1..Len(metadata) : "id" \notin DOMAIN metadata[i]

RECURSIVE ExpectedIndex(_, _)
\* 0 for the first chunk and after a change of source:page, otherwise one
\* more than the chunk before
ExpectedIndex(seq, i) ==
    IF i = 1 \/ PageId(seq[i]) # PageId(seq[i - 1]) THEN 0
    ELSE ExpectedIndex(seq, i - 1) + 1

\* the list [A,pg1],[A,pg1],[A,pg2],[A,pg1]
IsReentryExample(seq) ==
    /\ Len(seq) = 4
    /\ \A i \in 1..4 : seq[i].metadata = [source |-> "A", page |-> (IF i = 3 THEN 2 ELSE 1)]

\* C1: calculate_chunk_ids gives chunk i the id "source:page:index" built
\* from the source and page of chunk i itself (an absent value is rendered,
\* not an error), index being 0 for the first chunk and after a change of
\* the rendered source:page, and otherwise the index of chunk i-1 plus 1;
\* the list [A,pg1],[A,pg1],[A,pg2],[A,pg1] gets A:1:0, A:1:1, A:2:0, A:1:0.
C1_ChunkIds ==
    \A c \in 1..Len(calls) :
        KeepsId(calls[c].metadata) =>
            /\ Len(calls[c].result) = Len(arg)
            /\ \A i \in 1..Len(arg) :
                  /\ calls[c].result[i].metadata["id"] =
                        FmtSource(Get(arg[i].metadata, "source")) \o ":" \o
                        FmtPage(Get(arg[i].metadata, "page")) \o ":" \o
                        ToString(ExpectedIndex(arg, i))
                  /\ calls[c].result[i].page_content = arg[i].page_content
            /\ IsReentryExample(arg) =>
                  IdsOf(calls[c].result) = <<"A:1:0", "A:1:1", "A:2:0", "A:1:0">>

\* C1 witness: the re-entry list [A,pg1],[A,pg1],[A,pg2],[A,pg1] has been
\* identified and its fourth chunk got index 0 again
C1_Witness ==
    /\ IsReentryExample(arg)
    /\ Len(calls) = 1
    /\ IdsOf(calls[1].result) = <<"A:1:0", "A:1:1", "A:2:0", "A:1:0">>

\* the ids of a list are pairwise distinct
Distinct(ids) == \A i, j \in 1..Len(ids) : i # j => ids[i] # ids[j]

\* the chunks of one source:page follow one another in the list
Consecutive(seq) ==
    \A i, j \in 1..Len(seq) :
        (i < j /\ PageId(seq[i]) = PageId(seq[j])) =>
            \A k \in i..j : PageId(seq[k]) = PageId(seq[i])

\* C7 as stated: the ids calculate_chunk_ids gives the chunks of one
\* ingestion run (its overlay is the permission flags) are pairwise
\* distinct, for every input sequence.
C7_DistinctAlways ==
    \A c \in 1..Len(calls) :
        calls[c].metadata = EmbedOverlay => Distinct(IdsOf(calls[c].result))

\* C7 as amended: they are pairwise distinct for every input sequence in
\* which the chunks of one source:page follow one another.
C7_DistinctWhenConsecutive ==
    \A c \in 1..Len(calls) :
        (calls[c].metadata = EmbedOverlay /\ Consecutive(arg)) =>
            Distinct(IdsOf(calls[c].result))

\* C7 witness: a run over two pages, the first cut into several chunks
C7_Witness ==
    /\ Len(calls) >= 1
    /\ calls[1].metadata = EmbedOverlay
    /\ Consecutive(arg)
    /\ Len(arg) = 4
    /\ PageId(arg[1]) = PageId(arg[3])
    /\ PageId(arg[3]) # PageId(arg[4])
    /\ Distinct(IdsOf(calls[1].result))

\* C8 as stated: two invocations on equal sequences give the same id
\* sequence, whatever overlay is passed and whatever calls preceded them.
C8_SameIdsEveryCall ==
    \A c, d \in 1..Len(calls) : IdsOf(calls[c].result) = IdsOf(calls[d].result)

(***************************************************************************)
(* Properties of ingestion and search, checked under Spec and SpecBig.     *)
(***************************************************************************)
IsEmbed(t) == req[t].api = "embed"
IsSearch(t) == req[t].api = "search"

\* the write calls a task has issued, in order
Writes(t) == SelectSeq(store_calls[t], LAMBDA c : c.op = "add_documents")

\* the similarity searches a task has sent to the store
Searches(t) == SelectSeq(store_calls[t], LAMBDA c : c.op = "similarity_search")

\* add_documents has read the stored ids
HasRead(t) == \E i \in 1..Len(store_calls[t]) : store_calls[t][i].op = "get"

\* two ingestion runs on the same collection with identical identified chunks
SameInput(t, u) ==
    /\ t # u
    /\ IsEmbed(t) /\ IsEmbed(u)
    /\ req[t].index_name = req[u].index_name
    /\ chunks[t] = chunks[u]

\* the ids stored in the collection named name, none when it does not exist
IdsIn(colls, name) ==
    IF name \in DOMAIN colls THEN { colls[name][i].id : i \in 1..Len(colls[name]) }
    ELSE {}

\* the number of entries stored in the collection named name
CountIn(colls, name) == IF name \in DOMAIN colls THEN Len(colls[name]) ELSE 0

\* C2: when add_documents runs on the chunks of a run that has completed on
\* the same collection, the second run leaves the collection's chunk count
\* and its set of ids unchanged: every id collides with a stored one and
\* the second run issues no write.
C2_SecondRunStep ==
    \A t, u \in Tasks :
        ( /\ SameInput(t, u)
          /\ pc[u] = "done"
          /\ pc[t] = "diff"
          /\ pc'[t] \notin {"diff", "failed"} )
        => /\ pc'[t] = "done"
           /\ \A i \in 1..Len(chunks[t]) :
                 chunks[t][i].metadata["id"] \in existing_ids'[t]
           /\ new_chunks'[t] = <<>>
           /\ \A c \in 1..Len(store_calls'[t]) :
                 store_calls'[t][c].op # "add_documents"
           /\ \A name \in IndexNames :
                 /\ CountIn(collections', name) = CountIn(collections, name)
                 /\ IdsIn(collections', name) = IdsIn(collections, name)

\* C2: in every step, a second run of add_documents on the chunks of a
\* completed run finds every id stored, writes nothing and leaves the
\* collection's chunk count and set of ids unchanged.
C2_Idempotent == [][C2_SecondRunStep]_vars

\* C2 witness: a run has written its chunks, a second run on the same
\* chunks has completed without a write
C2_Witness ==
    \E t, u \in Tasks :
        /\ SameInput(t, u)
        /\ chunks[t] # <<>>
        /\ pc[u] = "done" /\ Writes(u) # <<>>
        /\ pc[t] = "done" /\ Writes(t) = <<>>
        /\ CountIn(collections, req[t].index_name) = Len(chunks[t])

\* the chunk counts of a task's write calls
Sizes(t) == [b \in 1..Len(Writes(t)) |-> Len(Writes(t)[b].documents)]

\* C3: a run of add_documents that found n > 0 new chunks and completed has
\* issued exactly ceil(n/100) write calls, each of at most 100 chunks and
\* all but the last of exactly 100, which together carry every new chunk
\* once, in input order, each with its own id; 250 new chunks go in calls
\* of 100, 100 and 50, after which the 250 ids are stored.
C3_Batches ==
    \A t \in Tasks :
        (IsEmbed(t) /\ pc[t] = "done" /\ new_chunks[t] # <<>>) =>
            LET W == Writes(t)
                n == Len(new_chunks[t])
            IN  /\ Len(W) = (n + 99) \div 100
                /\ \A b \in 1..Len(W) :
                      /\ W[b].ok
                      /\ Len(W[b].documents) <= 100
                      /\ b < Len(W) => Len(W[b].documents) = 100
                      /\ b = Len(W) => Len(W[b].documents) = n - 100 * (b - 1)
                      /\ Len(W[b].ids) = Len(W[b].documents)
                      /\ \A i \in 1..Len(W[b].documents) :
                            /\ W[b].documents[i] = new_chunks[t][100 * (b - 1) + i]
                            /\ W[b].ids[i] = W[b].documents[i].metadata["id"]
                /\ n = 250 => Sizes(t) = <<100, 100, 50>>
                /\ \A i \in 1..n :
                      new_chunks[t][i].metadata["id"] \in StoredIds(Coll(t))
                /\ n = 250 =>
                      Cardinality({ new_chunks[t][i].metadata["id"] : i \in 1..n }
                                  \cap StoredIds(Coll(t))) = 250

\* C3 witness: 250 new chunks have been written in three calls
C3_Witness ==
    \E t \in Tasks :
        /\ pc[t] = "done"
        /\ Len(new_chunks[t]) = 250
        /\ Sizes(t) = <<100, 100, 50>>
        /\ Len(Coll(t)) = 250

\* C4: search returns at most k entries, all of them entries whose stored
\* metadata matches every key/value pair of the filter; a chunk stored with
\* user:owner = true and user:editor = false is never in the editor-filtered
\* list of /api/search.
C4_FilteredSearch ==
    \A t \in Tasks :
        IsSearch(t) =>
            /\ pc[t] \in {"search_owner", "done"} =>
                  Len(results[t].editor) <= req[t].k
            /\ pc[t] = "done" =>
                  /\ Len(results[t].owner) <= req[t].k
                  /\ response[t][1].results_editor = results[t].editor
                  /\ response[t][1].results_owner = results[t].owner
            /\ \A i \in 1..Len(results[t].editor) :
                  /\ "user:editor" \in DOMAIN results[t].editor[i].metadata
                  /\ results[t].editor[i].metadata["user:editor"] = TRUE
            /\ \A i \in 1..Len(results[t].owner) :
                  /\ "user:owner" \in DOMAIN results[t].owner[i].metadata
                  /\ results[t].owner[i].metadata["user:owner"] = TRUE
            /\ \A name \in DOMAIN collections :
                  \A e \in 1..Len(collections[name]) :
                      collections[name][e].metadata["user:editor"] = FALSE =>
                          \A i \in 1..Len(results[t].editor) :
                              results[t].editor[i] # collections[name][e]

\* C4 witness: /api/search has answered with an owner-filtered list that
\* holds a chunk stored with owner = true and editor = false, cut to k of
\* the three stored chunks, and with an empty editor-filtered list
C4_Witness ==
    \E t \in Tasks :
        /\ IsSearch(t) /\ pc[t] = "done"
        /\ Len(Coll(t)) > req[t].k
        /\ Len(results[t].owner) = req[t].k
        /\ results[t].owner[1].metadata["user:owner"] = TRUE
        /\ results[t].owner[1].metadata["user:editor"] = FALSE
        /\ results[t].editor = <<>>

\* C5 as stated: a search with k = 0 or a negative k fails before the store
\* is contacted: no similarity-search request of such a call reaches the
\* store.
C5_NoRequestForBadK ==
    \A t \in Tasks : (IsSearch(t) /\ req[t].k <= 0) => Searches(t) = <<>>

\* C6 as stated: a request with chunk_overlap >= chunk_size fails before
\* any splitting, so no chunk of it is produced, identified or written.
C6_RejectedBeforeSplitting ==
    \A t \in Tasks :
        (IsEmbed(t) /\ req[t].chunk_overlap >= req[t].chunk_size) =>
            /\ pc[t] \notin {"identify", "diff", "upsert", "done"}
            /\ chunks[t] = <<>>
            /\ Writes(t) = <<>>

\* C9: when every input chunk's id is among the stored ids add_documents
\* read (the empty input included), add_documents issues no write call,
\* leaves the collection unchanged and returns success with the message
\* "No new valid documents to add".
C9_NothingNew ==
    \A t \in Tasks :
        ( /\ IsEmbed(t) /\ HasRead(t)
          /\ \A i \in 1..Len(chunks[t]) :
                chunks[t][i].metadata["id"] \in existing_ids[t] )
        => /\ pc[t] = "done"
           /\ ret[t] = << [success |-> TRUE,
                           message |-> "No new valid documents to add"] >>
           /\ Writes(t) = <<>>

\* the step in which add_documents reads the ids and returns
C9_ReturnStep ==
    \A t \in Tasks :
        (IsEmbed(t) /\ pc[t] = "diff" /\ pc'[t] = "done") =>
            collections' = collections

\* C9: when every chunk id is already stored, add_documents makes no write,
\* returns the "No new valid documents to add" success signal, and the step
\* in which it returns leaves every collection unchanged.
C9_NoOp == [](C9_NothingNew) /\ [][C9_ReturnStep]_vars

\* C9 witness: add_documents has returned the no-op signal, without a
\* write, for chunks whose ids were all stored by a run that split the same
\* documents into more chunks
C9_Witness ==
    \E t \in Tasks :
        /\ IsEmbed(t) /\ pc[t] = "done" /\ chunks[t] # <<>> /\ Writes(t) = <<>>
        /\ ret[t] = <<NoNewDocuments>>
        /\ Len(Coll(t)) > Len(chunks[t])

\* the ids a task's successful writes have stored
WrittenIds(t) ==
    UNION { Range(Writes(t)[b].ids) : b \in { c \in 1..Len(Writes(t)) : Writes(t)[c].ok } }

\* the ids of a sequence of identified chunks
IdSet(cs) == { cs[i].metadata["id"] : i \in 1..Len(cs) }

\* the write of batch j of task t has failed
FailedAt(t, j) ==
    /\ IsEmbed(t)
    /\ j \in 1..Len(Writes(t))
    /\ ~Writes(t)[j].ok

\* C10, the state after a failure: when the write of batch j fails, the
\* task ends there: batches 1..j-1 were written and their ids are stored,
\* batch j is the last write call the task makes, and the calls made so far
\* are the first j batches of the new chunks.
C10_AfterFailure ==
    \A t \in Tasks :
        \A j \in 1..Len(Writes(t)) :
            FailedAt(t, j) =>
                /\ pc[t] = "failed"
                /\ j = Len(Writes(t))
                /\ batch_no[t] = j
                /\ \A b \in 1..(j - 1) :
                      /\ Writes(t)[b].ok
                      /\ Range(Writes(t)[b].ids) \subseteq StoredIds(Coll(t))
                /\ \A b \in 1..j :
                      \A i \in 1..Len(Writes(t)[b].documents) :
                          Writes(t)[b].documents[i] = new_chunks[t][100 * (b - 1) + i]
                /\ j < (Len(new_chunks[t]) + 99) \div 100 =>
                      ~(IdSet(new_chunks[t]) \subseteq WrittenIds(t))

\* C10, the steps: the failing write changes no collection, a failed task
\* takes no further step, and a later run on the same input selects exactly
\* the chunks whose ids are not stored, none of which the failed run wrote;
\* every write of a run carries chunks that run selected.
C10_Steps ==
    /\ \A t \in Tasks :
          (pc[t] = "upsert" /\ pc'[t] = "failed") => collections' = collections
    /\ \A t \in Tasks :
          (\E j \in 1..Len(Writes(t)) : FailedAt(t, j)) =>
              /\ pc'[t] = pc[t]
              /\ store_calls'[t] = store_calls[t]
    /\ \A t, u \in Tasks :
          ( /\ SameInput(t, u)
            /\ \E j \in 1..Len(Writes(t)) : FailedAt(t, j)
            /\ pc[u] = "diff" /\ pc'[u] \in {"upsert", "done"} )
          => /\ new_chunks'[u] =
                    SelectSeq(chunks[u], LAMBDA c :
                        c.metadata["id"] \notin IdsIn(collections, req[u].index_name))
             /\ IdSet(new_chunks'[u]) \cap WrittenIds(t) = {}
    /\ \A u \in Tasks :
          (pc[u] = "upsert" /\ store_calls'[u] # store_calls[u]) =>
              LET call == store_calls'[u][Len(store_calls'[u])]
              IN  /\ call.op = "add_documents"
                  /\ Range(call.documents) \subseteq Range(new_chunks[u])
                  /\ Range(call.ids) \subseteq IdSet(new_chunks[u])

\* C10: when the write of batch j fails, batches 1..j-1 stay stored, no
\* later batch is attempted, nothing is rolled back, and a re-run on the
\* same input writes exactly the chunks still missing, none of the chunks
\* of batches 1..j-1.
C10_PartialFailure == [](C10_AfterFailure) /\ [][C10_Steps]_vars

\* C10 witness: a run failed at its second batch with the first batch
\* stored, and a later run on the same input has completed after writing
\* exactly the chunks the first run did not write
C10_Witness ==
    \E t, u \in Tasks :
        /\ SameInput(t, u)
        /\ FailedAt(t, 2)
        /\ Cardinality(WrittenIds(t)) = 100
        /\ pc[u] = "done"
        /\ Len(new_chunks[u]) = 150
        /\ WrittenIds(u) \cap WrittenIds(t) = {}
        /\ WrittenIds(u) \cup WrittenIds(t) = IdSet(chunks[u])
        /\ IdSet(chunks[u]) = StoredIds(Coll(u))

\* no ingestion stage of task t has run
NoStageRun(t) ==
    /\ vector_store[t] = <<>>
    /\ documents[t] = <<>>
    /\ chunks[t] = <<>>
    /\ new_chunks[t] = <<>>
    /\ store_calls[t] = <<>>
    /\ ret[t] = <<>>

\* the acknowledgment of /api/embed
Acknowledged(t) ==
    response[t] = << [status |-> 200, success |-> TRUE,
                      message |-> "Upload started in background"] >>

\* C12, the states: an /api/embed request whose background task was
\* scheduled carries the acknowledgment in every later stage, Done and
\* Failed included; it carries 500 "Internal server error" only when the
\* scheduling raised, and then no ingestion stage ever runs.
C12_Answers ==
    \A t \in Tasks :
        IsEmbed(t) =>
            /\ pc[t] # "rejected" => Acknowledged(t)
            /\ pc[t] = "rejected" =>
                  /\ response[t] = << [status |-> 500,
                                       detail |-> "Internal server error"] >>
                  /\ NoStageRun(t)

\* C12, the steps: the answer is given in the step that receives the
\* request, when no ingestion stage has run, and no later step changes it.
C12_AnswerStep ==
    \A t \in Tasks :
        /\ (pc[t] = "idle" /\ IsEmbed(t)' /\ pc'[t] # "rejected") =>
              /\ pc'[t] = "connect"
              /\ Acknowledged(t)'
              /\ NoStageRun(t)'
        /\ IsEmbed(t) => response'[t] = response[t]

\* C12: POST /api/embed answers with the acknowledgment before any stage of
\* its ingestion has run, the answer stays the same whether the ingestion
\* ends in Done or in Failed, and 500 is the answer only when scheduling
\* the background task raised.
C12_AcknowledgedAtOnce == [](C12_Answers) /\ [][C12_AnswerStep]_vars

\* C12 witness: of two acknowledged /api/embed requests one ingestion is
\* done and the other has failed
C12_Witness ==
    \E t, u \in Tasks :
        /\ IsEmbed(t) /\ IsEmbed(u)
        /\ pc[t] = "done" /\ Writes(t) # <<>>
        /\ pc[u] = "failed"
        /\ Acknowledged(t) /\ Acknowledged(u)

\* the k first entries of the requested collection that carry flag = true
Hits(t, flag) ==
    LET coll == collections[req[t].index_name]
        hits == SelectSeq(coll, LAMBDA e : flag \in DOMAIN e.metadata
                                           /\ e.metadata[flag] = TRUE)
    IN  SubSeq(hits, 1, IF req[t].k < Len(hits) THEN req[t].k ELSE Len(hits))

\* C13: a /api/search request answered with 200 has issued exactly two
\* similarity searches on the requested collection, both with the request's
\* query and k, the first filtered to user:editor = true and the second to
\* user:owner = true, and its answer carries the two result lists as the
\* store gave them, unmerged; a request in which a search raised is
\* answered 500 "Internal server error" with neither list; no request
\* issues more than the two searches.
C13_TwoSearches ==
    \A t \in Tasks :
        IsSearch(t) =>
            /\ Len(Searches(t)) <= 2
            /\ \A c \in 1..Len(Searches(t)) :
                  /\ Searches(t)[c].query = req[t].query
                  /\ Searches(t)[c].k = req[t].k
                  /\ Searches(t)[c].filter =
                        IF c = 1 THEN [f \in {"user:editor"} |-> TRUE]
                        ELSE [f \in {"user:owner"} |-> TRUE]
                  /\ vector_store[t] = <<req[t].index_name>>
            /\ pc[t] = "done" =>
                  /\ Len(Searches(t)) = 2
                  /\ response[t] =
                        << [status |-> 200, success |-> TRUE,
                            results_editor |-> Hits(t, "user:editor"),
                            results_owner |-> Hits(t, "user:owner")] >>
            /\ pc[t] = "failed" =>
                  response[t] = << [status |-> 500,
                                    detail |-> "Internal server error"] >>
            /\ (response[t] # <<>> /\ response[t][1].status = 200) => pc[t] = "done"

\* C13 witness: a request was answered with a chunk that matches both
\* filters in both lists, and another request failed in its second search
C13_Witness ==
    \E t, u \in Tasks :
        /\ IsSearch(t) /\ pc[t] = "done"
        /\ \E i \in 1..Len(results[t].editor), j \in 1..Len(results[t].owner) :
              results[t].editor[i] = results[t].owner[j]
        /\ results[t].editor # results[t].owner
        /\ IsSearch(u) /\ pc[u] = "failed"
        /\ Len(Searches(u)) = 1 /\ req[u].k > 0

\* task t takes the step
Moves(t) ==
    \/ pc'[t] # pc[t]
    \/ store_calls'[t] # store_calls[t]

\* the entries stored in the collection named name, none when it is absent
EntriesIn(colls, name) == IF name \in DOMAIN colls THEN colls[name] ELSE <<>>

\* what a collection holds after the run of task t alone: its chunks, in
\* order, each under its id
StoredAlone(t) ==
    [i \in 1..Len(chunks[t]) |->
        [id |-> chunks[t][i].metadata["id"],
         page_content |-> chunks[t][i].page_content,
         metadata |-> chunks[t][i].metadata]]

\* task t is the only request for its collection, now and later
OnlyRunOn(t) ==
    \A u \in Tasks : u # t => (pc[u] # "idle" /\ req[u].index_name # req[t].index_name)

\* C17, the states: a run holds the handle of the collection its request
\* names and no other, and a collection that one run alone was requested
\* for holds, once that run is done, what the run stores when it executes
\* alone, whatever the runs for other collections did meanwhile.
C17_OwnCollection ==
    \A t \in Tasks :
        IsEmbed(t) =>
            /\ vector_store[t] \in {<<>>, <<req[t].index_name>>}
            /\ (OnlyRunOn(t) /\ pc[t] = "done") =>
                  EntriesIn(collections, req[t].index_name) = StoredAlone(t)
            /\ (OnlyRunOn(t) /\ pc[t] \in {"load", "split", "identify", "diff"}
                /\ vector_store[t] # <<>>) =>
                  EntriesIn(collections, req[t].index_name) = <<>>

\* C17, the steps: the ids a run reads are those of its own collection, and
\* a step changes or creates a collection only when the task that takes it
\* was requested for that collection.
C17_OwnSteps ==
    /\ \A t \in Tasks :
          (IsEmbed(t) /\ ~HasRead(t) /\ HasRead(t)') =>
              existing_ids'[t] = IdsIn(collections, req[t].index_name)
    /\ \A name \in IndexNames :
          ( \/ (name \in DOMAIN collections') # (name \in DOMAIN collections)
            \/ EntriesIn(collections', name) # EntriesIn(collections, name) )
          => \E t \in Tasks : Moves(t) /\ req'[t].index_name = name

\* C17: ingestion runs for different collections share no state: a run
\* reads and writes only the collection it was requested for, through a
\* handle of that collection, and each collection ends in the state the
\* run for it reaches alone.
C17_Isolated == [](C17_OwnCollection) /\ [][C17_OwnSteps]_vars

\* C17 witness: two runs for different collections, split differently, are
\* both done and each collection holds its own run's chunks
C17_Witness ==
    \E t, u \in Tasks :
        /\ IsEmbed(t) /\ IsEmbed(u)
        /\ req[t].index_name # req[u].index_name
        /\ pc[t] = "done" /\ pc[u] = "done"
        /\ Len(chunks[t]) > Len(chunks[u]) /\ chunks[u] # <<>>
        /\ collections[req[t].index_name] = StoredAlone(t)
        /\ collections[req[u].index_name] = StoredAlone(u)

\* the position of a stage in the order Idle, (connect,) Loading,
\* Splitting, Identifying, Diffing, Upserting, Done | Failed
StageNo(stage) ==
    CASE stage = "idle" -> 0
      [] stage = "connect" -> 1
      [] stage = "load" -> 2
      [] stage = "split" -> 3
      [] stage = "identify" -> 4
      [] stage = "diff" -> 5
      [] stage = "upsert" -> 6
      [] stage \in {"done", "failed", "rejected"} -> 7

\* every chunk of task t carries its id
AllIdentified(t) ==
    \A i \in 1..Len(chunks[t]) : "id" \in DOMAIN chunks[t][i].metadata

\* C18, the states: once the stored ids are read every chunk has its id,
\* the read is the first call a run makes to the store and so precedes
\* every write, and a raised exception (a rejected splitter, a failed
\* write) has ended the run in Failed.
C18_Stages ==
    \A t \in Tasks :
        IsEmbed(t) =>
            /\ pc[t] \in {"diff", "upsert", "done"} => AllIdentified(t)
            /\ HasRead(t) => (AllIdentified(t) /\ store_calls[t][1].op = "get")
            /\ Writes(t) # <<>> => HasRead(t)
            /\ pc[t] \in {"upsert", "done"} => HasRead(t)
            /\ req[t].chunk_overlap > req[t].chunk_size =>
                  pc[t] \in {"connect", "load", "split", "failed", "rejected"}
            /\ (\E b \in 1..Len(Writes(t)) : ~Writes(t)[b].ok) => pc[t] = "failed"

\* C18, the steps: a run moves from a stage to the next one, from Diffing
\* or Upserting to Done, or from any stage to Failed, and a run that is
\* Done or Failed takes no further step.
C18_StageStep ==
    \A t \in Tasks :
        (IsEmbed(t) /\ Moves(t)) =>
            /\ pc[t] \notin {"done", "failed", "rejected"}
            /\ \/ pc'[t] = "failed"
               \/ StageNo(pc'[t]) = StageNo(pc[t]) + 1
               \/ pc[t] = "diff" /\ pc'[t] = "done"
               \/ pc[t] = "upsert" /\ pc'[t] = "upsert"
            /\ pc'[t] = "failed" =>
                  /\ collections' = collections
                  /\ chunks'[t] = chunks[t]
                  /\ new_chunks'[t] = new_chunks[t]

\* every scheduled run eventually is Done or Failed: as a run that has ended
\* stays ended, again and again no scheduled run is in a stage before its
\* end
C18_Ends ==
    []<>(\A t \in Tasks :
            (IsEmbed(t) /\ pc[t] # "rejected") => pc[t] \in {"done", "failed"})

\* C18: an ingestion run passes through its stages in the order Idle,
\* Loading, Splitting, Identifying, Diffing, Upserting and ends in Done or
\* Failed: chunks are identified before the stored ids are read, the ids
\* are read before the first write, an exception ends the run in Failed
\* with no later stage executed, and every run eventually is Done or Failed.
C18_StageOrder == [](C18_Stages) /\ [][C18_StageStep]_vars /\ C18_Ends

\* C18 witness: one run has passed every stage and written, another has
\* failed in the write of its only batch
C18_Witness ==
    \E t, u \in Tasks :
        /\ IsEmbed(t) /\ pc[t] = "done" /\ Writes(t) # <<>>
        /\ store_calls[t][1].op = "get"
        /\ IsEmbed(u) /\ pc[u] = "failed" /\ HasRead(u)
        /\ Writes(u) # <<>> /\ ~Writes(u)[1].ok

(***************************************************************************)
(* Properties of concurrent add_documents runs, checked under SpecAdd.     *)
(***************************************************************************)
\* task t runs add_documents, for /api/embed or for a direct caller
IsRun(t) == req[t].api \in {"embed", "add_documents"}

\* two different runs of add_documents on one collection
SameCollection(t, u) ==
    /\ t # u
    /\ IsRun(t) /\ IsRun(u)
    /\ req[t].index_name = req[u].index_name

\* how often task t has handed id x to the store's write
Submitted(t, x) ==
    Cardinality(UNION { { <<b, i>> : i \in { j \in 1..Len(Writes(t)[b].ids) :
                                                Writes(t)[b].ids[j] = x } } :
                        b \in 1..Len(Writes(t)) })

\* the ids written by the runs other than t and u
WrittenByOthers(t, u) == UNION { WrittenIds(v) : v \in Tasks \ {t, u} }

\* how many entries of the collection of task t are stored under id x
Held(t, x) == Len(SelectSeq(Coll(t), LAMBDA e : e.id = x))

\* C14: when two add_documents runs on one collection whose sets of new
\* ids are disjoint are both done, in whatever order their reads and
\* writes interleaved, the collection's ids are the ids stored before the
\* two runs plus the new ids of both (plus what other runs wrote), and each
\* new id was handed to the store's write exactly once.
C14_DisjointRuns ==
    \A t, u \in Tasks :
        ( /\ SameCollection(t, u)
          /\ pc[t] = "done" /\ pc[u] = "done"
          /\ IdSet(new_chunks[t]) \cap IdSet(new_chunks[u]) = {} )
        => /\ StoredIds(Coll(t)) =
                 (existing_ids[t] \cap existing_ids[u])
                 \cup IdSet(new_chunks[t]) \cup IdSet(new_chunks[u])
                 \cup WrittenByOthers(t, u)
           /\ \A x \in IdSet(new_chunks[t]) \cup IdSet(new_chunks[u]) :
                 /\ Submitted(t, x) + Submitted(u, x) = 1
                 /\ WrittenByOthers(t, u) = {} => Held(t, x) = 1

\* C14 witness: two runs with disjoint new ids both read the stored ids
\* before either wrote, and both are done
C14_Witness ==
    \E t, u \in Tasks :
        /\ SameCollection(t, u)
        /\ pc[t] = "done" /\ pc[u] = "done"
        /\ new_chunks[t] # <<>> /\ new_chunks[u] # <<>>
        /\ existing_ids[t] = existing_ids[u]
        /\ IdSet(new_chunks[t]) \cap IdSet(new_chunks[u]) = {}
        /\ Cardinality(StoredIds(Coll(t))) = Len(new_chunks[t]) + Len(new_chunks[u])

\* how often the successful writes of task t carried id x
Stored(t, x) ==
    Cardinality(UNION { { <<b, i>> : i \in { j \in 1..Len(Writes(t)[b].ids) :
                                                Writes(t)[b].ids[j] = x } } :
                        b \in { c \in 1..Len(Writes(t)) : Writes(t)[c].ok } })

\* the sum of Stored(v, x) over the tasks v of set S
RECURSIVE StoredBy(_, _)
StoredBy(S, x) ==
    IF S = {} THEN 0
    ELSE LET v == CHOOSE w \in S : TRUE
         IN  Stored(v, x) + StoredBy(S \ {v}, x)

\* C15: when two add_documents runs on one collection both found an id new
\* (each read the stored ids before the other wrote it) and both are done,
\* both have handed that id to the store's write; a store that keeps one
\* entry per id then holds the id once, a store that does not holds it
\* twice (and once more for every other run that wrote it).
C15_SharedNewId ==
    \A t, u \in Tasks :
        (SameCollection(t, u) /\ pc[t] = "done" /\ pc[u] = "done") =>
            \A x \in IdSet(new_chunks[t]) \cap IdSet(new_chunks[u]) :
                /\ x \notin existing_ids[t] \cup existing_ids[u]
                /\ Submitted(t, x) = 1
                /\ Submitted(u, x) = 1
                /\ store_unique => Held(t, x) = 1
                /\ ~store_unique =>
                      Held(t, x) = 2 + StoredBy(Tasks \ {t, u}, x)

\* C15 witness: on the store that keeps one entry per id, two runs that
\* both read before either wrote have both written an id under different
\* texts, and the collection holds it once
C15_Witness ==
    \E t, u \in Tasks :
        /\ SameCollection(t, u)
        /\ store_unique
        /\ pc[t] = "done" /\ pc[u] = "done"
        /\ \E x \in IdSet(new_chunks[t]) \cap IdSet(new_chunks[u]) :
              /\ Submitted(t, x) = 1 /\ Submitted(u, x) = 1
              /\ Held(t, x) = 1
              /\ \E i \in 1..Len(new_chunks[t]), j \in 1..Len(new_chunks[u]) :
                    /\ new_chunks[t][i].metadata["id"] = x
                    /\ new_chunks[u][j].metadata["id"] = x
                    /\ new_chunks[t][i].page_content # new_chunks[u][j].page_content

\* the same interleaving on a store without id uniqueness: the id is held
\* twice
C15_HeldTwice ==
    \E t, u \in Tasks :
        /\ SameCollection(t, u)
        /\ ~store_unique
        /\ pc[t] = "done" /\ pc[u] = "done"
        /\ \E x \in IdSet(new_chunks[t]) \cap IdSet(new_chunks[u]) : Held(t, x) = 2

\* the seven permission flags /api/embed attaches
SevenFlags ==
    ("user:editor" :> FALSE @@ "user:owner" :> TRUE @@ "user:admin" :> TRUE
     @@ "user:superadmin" :> TRUE @@ "user:root" :> TRUE
     @@ "user:system" :> TRUE @@ "user:anonymous" :> TRUE)

\* the overlay add_documents was called with
OverlayOf(t) == IF IsEmbed(t) THEN <<SevenFlags>> ELSE req[t].metadata

\* the value the last overlay entry that sets key gives it
LastValue(metadata, key) ==
    LET last == CHOOSE i \in 1..Len(metadata) :
                    /\ key \in DOMAIN metadata[i]
                    /\ \A j \in (i + 1)..Len(metadata) : key \notin DOMAIN metadata[j]
    IN  metadata[last][key]

\* chunk c has its id and every key of the overlay, with the last value
Carries(c, metadata) ==
    /\ "id" \in DOMAIN c.metadata
    /\ \A i \in 1..Len(metadata) :
          \A key \in DOMAIN metadata[i] :
              /\ key \in DOMAIN c.metadata
              /\ c.metadata[key] = LastValue(metadata, key)

\* C19: from the first statement of add_documents on, so before anything is
\* stored, every input chunk carries its id and every key of the overlay,
\* with the value of the last overlay entry that sets the key; so do the
\* chunks of every write call, and every stored entry is a chunk some write
\* call carried; a chunk written for /api/embed carries the seven user:
\* flags with the values /api/embed passes.
C19_OverlayApplied ==
    /\ \A t \in Tasks :
          IsRun(t) =>
              /\ pc[t] \in {"diff", "upsert", "done", "failed"} =>
                    /\ Len(chunks[t]) >= Len(documents[t])
                    /\ \A i \in 1..Len(chunks[t]) : Carries(chunks[t][i], OverlayOf(t))
              /\ Writes(t) # <<>> => pc[t] \in {"upsert", "done", "failed"}
              /\ \A b \in 1..Len(Writes(t)) :
                    \A i \in 1..Len(Writes(t)[b].documents) :
                        /\ Carries(Writes(t)[b].documents[i], OverlayOf(t))
                        /\ Writes(t)[b].ids[i] = Writes(t)[b].documents[i].metadata["id"]
                        /\ IsEmbed(t) =>
                              \A key \in DOMAIN SevenFlags :
                                  Writes(t)[b].documents[i].metadata[key] = SevenFlags[key]
    /\ \A name \in DOMAIN collections :
          \A e \in 1..Len(collections[name]) :
              \E t \in Tasks :
                  /\ IsRun(t) /\ req[t].index_name = name
                  /\ \E b \in 1..Len(Writes(t)) :
                        /\ Writes(t)[b].ok
                        /\ \E i \in 1..Len(Writes(t)[b].documents) :
                              /\ collections[name][e].id = Writes(t)[b].ids[i]
                              /\ collections[name][e].metadata =
                                    Writes(t)[b].documents[i].metadata
                              /\ collections[name][e].page_content =
                                    Writes(t)[b].documents[i].page_content

\* C19 witness: the collection holds a chunk written for /api/embed, with
\* its seven flags, and a chunk written under an overlay that sets
\* user:editor twice, with the second value
C19_Witness ==
    \E t, u \in Tasks :
        /\ IsEmbed(t) /\ pc[t] = "done" /\ Writes(t) # <<>>
        /\ req[u].api = "add_documents" /\ pc[u] = "done" /\ Writes(u) # <<>>
        /\ Len(req[u].metadata) = 2
        /\ \E e, f \in 1..Len(Coll(t)) :
              /\ Coll(t)[e].id \in WrittenIds(t)
              /\ \A key \in DOMAIN SevenFlags : Coll(t)[e].metadata[key] = SevenFlags[key]
              /\ Coll(t)[f].id \in WrittenIds(u)
              /\ Coll(t)[f].metadata["user:editor"] = FALSE
              /\ Coll(t)[f].metadata["user:owner"] = TRUE
              /\ req[u].metadata[1]["user:editor"] = TRUE

\* the entries of the collection named name stored under id x, in order
EntriesUnder(colls, name, x) ==
    SelectSeq(EntriesIn(colls, name), LAMBDA e : e.id = x)

\* C20, the states: no write call of a run carries an id that was among
\* the stored ids the run read at its start.
C20_NoWriteOfExisting ==
    \A t \in Tasks :
        IsRun(t) =>
            \A b \in 1..Len(Writes(t)) :
                Range(Writes(t)[b].ids) \cap existing_ids[t] = {}

\* C20, the steps: a step of a run, its read included, leaves the text and
\* metadata stored under every id the run read as they are.
C20_ExistingUntouched ==
    \A t \in Tasks :
        (IsRun(t) /\ Moves(t) /\ pc[t] \in {"diff", "upsert"}) =>
            \A x \in existing_ids'[t] :
                EntriesUnder(collections', req[t].index_name, x) =
                    EntriesUnder(collections, req[t].index_name, x)

=============================================================================
